---- MODULE Spec2Model ----
(***************************************************************************)
(* A model of deep_array (the n-dimensional Array<T, N> and its            *)
(* BorrowedArray view) from deep_thought.                                  *)
(*                                                                         *)
(* Memory is modelled in slots of one element (one T) each: a *mut T that  *)
(* is advanced by `add(k)` moves k slots.  Strides are kept in bytes, as   *)
(* the code keeps them.                                                    *)
(***************************************************************************)
EXTENDS Integers, Sequences, FiniteSets, TLC

\* ---------------------------------------------------------------- bounds
\* Largest axis length of an Array of the heap machine.
MaxDim == 2
\* Number of element slots of the modelled heap.
MemSlots == 4
\* Largest axis length and element size the stride functions are applied to.
MaxStrideDim == 4
MaxElemSize == 9

\* WORD_SIZE: 8 with 64-bit pointers, 4 with 32-bit pointers.
WordSizes == {4, 8}

\* Ranks N (a const generic, fixed per program).
Ranks == {1, 2}
\* size_of::<T>() of the element type (fixed per program).
ElemSizes == {1, 2}
\* Element values.
Values == {0, 1}
\* Names of the owning Arrays and of the views a run may create.
ArrayIds == {"a", "b"}
ViewIds == {"v"}

\* The content of memory that was allocated and never written.
Uninit == -1

VARIABLES
    rank,       \* N
    elem_size,  \* size_of::<T>()
    mem,        \* heap slot -> value
    blk,        \* the allocator's blocks, one per owning Array that was created
    arr,        \* the owning Arrays
    view,       \* the BorrowedArrays
    last,       \* the last operation and what it returned
    sin,        \* operands of the functions that are applied
    sout,       \* result of the function that was applied
    dbg,        \* the threads that call the DebugAllocator, and their GUARD flags
    ds          \* a Dataset and the SampleIterator taken from it

vars == <<rank, elem_size, mem, blk, arr, view, last, sin, sout, dbg, ds>>

\* ---------------------------------------------------------------- helpers
Slots == 0 .. (MemSlots - 1)

RECURSIVE product(_)
product(s) == IF s = <<>> THEN 1 ELSE Head(s) * product(Tail(s))

\* All sequences of length n over S.
Tuples(n, S) == [1 .. n -> S]

Min(S) == CHOOSE x \in S : \A y \in S : x <= y

\* ---------------------------------------------------------------- pointers
NullPtr == [null |-> TRUE, addr |-> 0]
Ptr(a) == [null |-> FALSE, addr |-> a]
\* ptr.add(k)
PtrAdd(p, k) == [p EXCEPT !.addr = @ + k]
Mapped(p) == ~p.null /\ p.addr \in Slots

\* ---------------------------------------------------------------- allocator
NoBlock == [allocated |-> FALSE, base |-> 0, len |-> 0, frees |-> 0]
LiveBlock(b) == b.allocated /\ b.frees = 0
InBlock(b, s) == LiveBlock(b) /\ s >= b.base /\ s < b.base + b.len
Allocated(s) == \E a \in ArrayIds : InBlock(blk[a], s)

\* alloc(layout): no memory (null), or the base of n free slots.
AllocOutcomes(n) ==
    {NullPtr} \cup
    {Ptr(b) : b \in {c \in Slots : \A s \in c .. (c + n - 1) : s \in Slots /\ ~Allocated(s)}}

BlockOf(p, n) ==
    IF p.null THEN NoBlock
    ELSE [allocated |-> TRUE, base |-> p.addr, len |-> n, frees |-> 0]

\* ---------------------------------------------------------------- strides
RECURSIVE stride_loop(_, _, _)
stride_loop(dim, stride, index) ==
    IF index < 1 THEN stride
    ELSE stride_loop(dim, [stride EXCEPT ![index] = dim[index + 1] * stride[index + 1]],
                     index - 1)

\* stride_packed reading the axis itself instead of the next one.
RECURSIVE stride_loop_own_axis(_, _, _)
stride_loop_own_axis(dim, stride, index) ==
    IF index < 1 THEN stride
    ELSE stride_loop_own_axis(dim, [stride EXCEPT ![index] = dim[index] * stride[index + 1]],
                              index - 1)

stride_packed_own_axis(dim, es) ==
    stride_loop_own_axis(dim, [i \in 1 .. Len(dim) |-> es], Len(dim) - 1)

stride_packed(dim, es) ==
    stride_loop(dim, [i \in 1 .. Len(dim) |-> es], Len(dim) - 1)

\* stride_strided that always pads by one more word.
stride_strided_always_pads(dim, es, word) ==
    LET padded_size == ((es \div word) + 1) * word
    IN  stride_loop(dim, [i \in 1 .. Len(dim) |-> padded_size], Len(dim) - 1)

stride_strided(dim, es, word) ==
    LET add == IF es % word = 0 THEN 0 ELSE 1
        padded_size == ((es \div word) + add) * word
    IN  stride_loop(dim, [i \in 1 .. Len(dim) |-> padded_size], Len(dim) - 1)

\* ---------------------------------------------------------------- access
size(shape) == product(shape)

IndexOutOfBounds(ix, axis_ix, axis_size) ==
    [ok |-> FALSE, err |-> "IndexOutOfBounds", ix |-> ix, axis_ix |-> axis_ix,
     axis_size |-> axis_size]

OffsetOutOfBounds(offset, bound) ==
    [ok |-> FALSE, err |-> "OffsetOutOfBounds", offset |-> offset, bound |-> bound]

Ok(v) == [ok |-> TRUE, val |-> v]

RECURSIVE internal_ix_loop(_, _, _, _, _)
internal_ix_loop(shape, stride, ix, axis, internal_ix) ==
    IF axis > Len(ix) THEN Ok(internal_ix)
    ELSE IF ix[axis] >= shape[axis]
         THEN IndexOutOfBounds(ix[axis], axis - 1, shape[axis])
         ELSE internal_ix_loop(shape, stride, ix, axis + 1,
                               internal_ix + ix[axis] * stride[axis])

\* _get_internal_ix comparing with > instead of >=.
RECURSIVE internal_ix_loop_gt(_, _, _, _, _)
internal_ix_loop_gt(shape, stride, ix, axis, internal_ix) ==
    IF axis > Len(ix) THEN Ok(internal_ix)
    ELSE IF ix[axis] > shape[axis]
         THEN IndexOutOfBounds(ix[axis], axis - 1, shape[axis])
         ELSE internal_ix_loop_gt(shape, stride, ix, axis + 1,
                                  internal_ix + ix[axis] * stride[axis])

_get_internal_ix_gt(x, ix) == internal_ix_loop_gt(x.dim, x.stride, ix, 1, 0)

\* x is an Array or a BorrowedArray: [ptr, stride, dim].
_get_internal_ix(x, ix) == internal_ix_loop(x.dim, x.stride, ix, 1, 0)

_get_unchecked(x, offset) == PtrAdd(x.ptr, offset)

_get(x, offset) ==
    IF offset < size(x.dim) THEN Ok(_get_unchecked(x, offset))
    ELSE OffsetOutOfBounds(offset, size(x.dim))

get(x, ix) ==
    LET internal_ix == _get_internal_ix(x, ix)
    IN  IF internal_ix.ok THEN Ok(_get_unchecked(x, internal_ix.val)) ELSE internal_ix

\* What a load through p may yield; own is the block p was derived from.
ReadOutcomes(p, own) ==
    IF Mapped(p) /\ InBlock(own, p.addr) /\ mem[p.addr] # Uninit
    THEN {mem[p.addr]} ELSE Values

\* What memory may be after a store of x through p.
WriteOutcomes(p, x, own) ==
    IF Mapped(p) /\ InBlock(own, p.addr) THEN {[mem EXCEPT ![p.addr] = x]}
    ELSE {mem} \cup (IF Mapped(p) /\ Allocated(p.addr)
                     THEN {[mem EXCEPT ![p.addr] = x]} ELSE {})

\* ---------------------------------------------------------------- state
NoArray == [st |-> "none", ptr |-> NullPtr, stride |-> <<>>, dim |-> <<>>]
DroppedArray == [st |-> "dropped", ptr |-> NullPtr, stride |-> <<>>, dim |-> <<>>]
NoView == [st |-> "none", ptr |-> NullPtr, stride |-> <<>>, dim |-> <<>>,
           parent |-> "a", i1 |-> <<>>]
NoOp == [op |-> "none"]

Shapes == Tuples(rank, 0 .. MaxDim)
Indices == Tuples(rank, 0 .. MaxDim)
Offsets == 0 .. MemSlots

NoInput == [dim |-> <<>>, es |-> 0, word |-> 0]
NoResult == [fn |-> "none"]
NoDebug == [threads |-> {}]
NoDataset == [nrows |-> 0]

HeapInit ==
    /\ mem = [s \in Slots |-> Uninit]
    /\ blk = [a \in ArrayIds |-> NoBlock]
    /\ arr = [a \in ArrayIds |-> NoArray]
    /\ view = [v \in ViewIds |-> NoView]
    /\ last = NoOp

Init ==
    /\ rank \in Ranks
    /\ elem_size \in ElemSizes
    /\ HeapInit
    /\ dbg = NoDebug
    /\ ds = NoDataset
    /\ sin = NoInput
    /\ sout = NoResult

Live(a) == arr[a].st = "live"
LiveView(v) == view[v].st = "live"

\* The Array or BorrowedArray an access goes through, and the block its
\* pointer was derived from.
Target(kind, id) == IF kind = "array" THEN arr[id] ELSE view[id]
OwnBlock(kind, id) == IF kind = "array" THEN blk[id] ELSE blk[view[id].parent]
Targets ==
    {<<"array", a>> : a \in {x \in ArrayIds : Live(x)}} \cup
    {<<"view", v>> : v \in {x \in ViewIds : LiveView(x)}}

\* Array::uninitialized(dim), with the pointer the allocator returned.
uninitialized(dim, ptr) ==
    [st |-> "live", ptr |-> ptr, stride |-> stride_packed(dim, elem_size), dim |-> dim]

Uninitialized(a, dim) ==
    /\ arr[a].st = "none"
    /\ \E ptr \in AllocOutcomes(size(dim)) :
          /\ arr' = [arr EXCEPT ![a] = uninitialized(dim, ptr)]
          /\ blk' = [blk EXCEPT ![a] = BlockOf(ptr, size(dim))]
          /\ last' = [op |-> "uninitialized", id |-> a, shape |-> dim]
    /\ UNCHANGED <<rank, elem_size, mem, view, sin, sout, dbg, ds>>

\* Memory after `n` stores of item through ptr.add(0), ..., ptr.add(n - 1), where
\* ptr is what alloc returned for n slots (stores through a null pointer are lost).
fill_mem(m, ptr, n, item) ==
    [s \in Slots |-> IF ~ptr.null /\ s >= ptr.addr /\ s < ptr.addr + n THEN item ELSE m[s]]

Fill(a, item, shape) ==
    /\ arr[a].st = "none"
    /\ \E ptr \in AllocOutcomes(size(shape)) :
          /\ arr' = [arr EXCEPT ![a] = uninitialized(shape, ptr)]
          /\ blk' = [blk EXCEPT ![a] = BlockOf(ptr, size(shape))]
          /\ mem' = fill_mem(mem, ptr, size(shape), item)
          /\ last' = [op |-> "fill", id |-> a, item |-> item, shape |-> shape]
    /\ UNCHANGED <<rank, elem_size, view, sin, sout, dbg, ds>>

\* Memory after copy_nonoverlapping(src, dst, n): what is read through a null
\* src is indeterminate, what is stored through a null dst is lost.
copy_nonoverlapping(m, src, dst, n) ==
    [s \in Slots |->
        IF ~dst.null /\ s >= dst.addr /\ s < dst.addr + n
        THEN (IF src.null THEN Uninit ELSE m[src.addr + (s - dst.addr)])
        ELSE m[s]]

Clone(a, b) ==
    /\ Live(a)
    /\ arr[b].st = "none"
    /\ \E ptr \in AllocOutcomes(size(arr[a].dim)) :
          /\ arr' = [arr EXCEPT ![b] = uninitialized(arr[a].dim, ptr)]
          /\ blk' = [blk EXCEPT ![b] = BlockOf(ptr, size(arr[a].dim))]
          /\ mem' = copy_nonoverlapping(mem, arr[a].ptr, ptr, size(arr[a].dim))
          /\ last' = [op |-> "clone", id |-> b, src |-> a]
    /\ UNCHANGED <<rank, elem_size, view, sin, sout, dbg, ds>>

\* dealloc(ptr, layout) of the block allocated for a: the block is released and
\* its content is gone.  dealloc of a null pointer releases nothing.
dealloc(bl, a) ==
    IF bl[a].allocated THEN [bl EXCEPT ![a].frees = @ + 1] ELSE bl

released_mem(m, b) ==
    [s \in Slots |-> IF InBlock(b, s) THEN Uninit ELSE m[s]]

\* Drop for Array
DropArray(a) ==
    /\ Live(a)
    /\ blk' = dealloc(blk, a)
    /\ mem' = released_mem(mem, blk[a])
    /\ arr' = [arr EXCEPT ![a] = DroppedArray]
    /\ last' = [op |-> "drop", kind |-> "array", id |-> a]
    /\ UNCHANGED <<rank, elem_size, view, sin, sout, dbg, ds>>

\* A BorrowedArray whose drop releases the allocation it points into.
DropBorrowedReleases(v) ==
    /\ LiveView(v)
    /\ view' = [view EXCEPT ![v] = [NoView EXCEPT !.st = "dropped",
                                                  !.parent = view[v].parent]]
    /\ blk' = dealloc(blk, view[v].parent)
    /\ mem' = released_mem(mem, blk[view[v].parent])
    /\ last' = [op |-> "drop", kind |-> "view", id |-> v]
    /\ UNCHANGED <<rank, elem_size, arr, sin, sout, dbg, ds>>

\* A BorrowedArray going out of scope: the type has no Drop.
DropBorrowed(v) ==
    /\ LiveView(v)
    /\ view' = [view EXCEPT ![v] = [NoView EXCEPT !.st = "dropped",
                                                  !.parent = view[v].parent]]
    /\ last' = [op |-> "drop", kind |-> "view", id |-> v]
    /\ UNCHANGED <<rank, elem_size, mem, blk, arr, sin, sout, dbg, ds>>

\* The assertion of borrow with < instead of <=.
borrow_assert_strict(i1, i2) == \A i \in 1 .. Len(i1) : i1[i] < i2[i]

\* The assertion of borrow: every lower bound is at most its upper bound.
borrow_assert(i1, i2) == \A i \in 1 .. Len(i1) : i1[i] <= i2[i]

borrow_dims(i1, i2) == [i \in 1 .. Len(i1) |-> i2[i] - i1[i]]

\* Array::borrow(i1, i2) of x: a panic, an error, or the view.
borrow(x, i1, i2) ==
    IF ~borrow_assert(i1, i2) THEN [ok |-> FALSE, err |-> "panic"]
    ELSE LET internal_ix == _get_internal_ix(x, i1)
         IN  IF ~internal_ix.ok THEN internal_ix
             ELSE Ok([ptr |-> PtrAdd(x.ptr, internal_ix.val),
                      stride |-> x.stride,
                      dim |-> borrow_dims(i1, i2)])

Borrow(a, v, i1, i2) ==
    /\ Live(a)
    /\ view[v].st = "none"
    /\ LET r == borrow(arr[a], i1, i2)
       IN  /\ view' = IF r.ok
                      THEN [view EXCEPT ![v] =
                              [st |-> "live", ptr |-> r.val.ptr, stride |-> r.val.stride,
                               dim |-> r.val.dim, parent |-> a, i1 |-> i1]]
                      ELSE view
           /\ last' = [op |-> "borrow", id |-> a, view |-> v, i1 |-> i1, i2 |-> i2,
                       res |-> r]
    /\ UNCHANGED <<rank, elem_size, mem, blk, arr, sin, sout, dbg, ds>>

\* get(ix) and the load through the reference it returns.
Get(kind, id, ix) ==
    /\ <<kind, id>> \in Targets
    /\ LET r == get(Target(kind, id), ix)
       IN  \E val \in (IF r.ok THEN ReadOutcomes(r.val, OwnBlock(kind, id)) ELSE {Uninit}) :
              last' = [op |-> "get", kind |-> kind, id |-> id, ix |-> ix, res |-> r,
                       val |-> val]
    /\ UNCHANGED <<rank, elem_size, mem, blk, arr, view, sin, sout, dbg, ds>>

\* get_mut(ix) and the store of x through the reference it returns.
GetMut(kind, id, ix, x) ==
    /\ <<kind, id>> \in Targets
    /\ LET r == get(Target(kind, id), ix)
       IN  /\ mem' \in (IF r.ok THEN WriteOutcomes(r.val, x, OwnBlock(kind, id)) ELSE {mem})
           /\ last' = [op |-> "get_mut", kind |-> kind, id |-> id, ix |-> ix, res |-> r,
                       val |-> x]
    /\ UNCHANGED <<rank, elem_size, blk, arr, view, sin, sout, dbg, ds>>

\* _get(offset) and the load through the reference it returns.
RawGet(a, offset) ==
    /\ Live(a)
    /\ LET r == _get(arr[a], offset)
       IN  \E val \in (IF r.ok THEN ReadOutcomes(r.val, blk[a]) ELSE {Uninit}) :
              last' = [op |-> "_get", kind |-> "array", id |-> a, offset |-> offset,
                       res |-> r, val |-> val]
    /\ UNCHANGED <<rank, elem_size, mem, blk, arr, view, sin, sout, dbg, ds>>

\* _get_mut(offset) and the store of x through the reference it returns.
RawGetMut(a, offset, x) ==
    /\ Live(a)
    /\ LET r == _get(arr[a], offset)
       IN  /\ mem' \in (IF r.ok THEN WriteOutcomes(r.val, x, blk[a]) ELSE {mem})
           /\ last' = [op |-> "_get_mut", kind |-> "array", id |-> a, offset |-> offset,
                       res |-> r, val |-> x]
    /\ UNCHANGED <<rank, elem_size, blk, arr, view, sin, sout, dbg, ds>>

\* A load, a comparison or a failed call leaves arrays and memory as they were, so
\* every state the program reaches is reached by a run that makes at most one of
\* them, as its last operation: the specifications take no step after one.
Observed ==
    \/ last.op \in {"get", "_get"}
    \/ "res" \in DOMAIN last /\ ~last.res.ok

Next ==
    \/ ~Observed /\ \E dim \in Shapes : Uninitialized("a", dim)
    \/ ~Observed /\ \E item \in Values, shape \in Shapes : Fill("a", item, shape)
    \/ ~Observed /\ Clone("a", "b")
    \/ ~Observed /\ \E a \in ArrayIds : DropArray(a)
    \/ ~Observed /\ \E a \in ArrayIds, v \in ViewIds, i1 \in Indices, i2 \in Indices :
                        Borrow(a, v, i1, i2)
    \/ ~Observed /\ \E v \in ViewIds : DropBorrowed(v)
    \/ ~Observed /\ \E t \in Targets, ix \in Indices : Get(t[1], t[2], ix)
    \/ ~Observed /\ \E a \in ArrayIds, offset \in Offsets : RawGet(a, offset)

Spec == Init /\ [][Next]_vars

\* Programs that fill an Array, borrow from it, and load and store through both.
NextView ==
    \/ ~Observed /\ \E item \in Values, shape \in Shapes : Fill("a", item, shape)
    \/ ~Observed /\ \E i1 \in Indices, i2 \in Indices : Borrow("a", "v", i1, i2)
    \/ ~Observed /\ \E t \in Targets, ix \in Indices : Get(t[1], t[2], ix)
    \/ ~Observed /\ \E t \in Targets, ix \in Indices, x \in Values :
                        GetMut(t[1], t[2], ix, x)

SpecView == Init /\ [][NextView]_vars

\* Programs that fill an Array, clone it, and load and store through both.
NextClone ==
    \/ ~Observed /\ \E item \in Values, shape \in Shapes : Fill("a", item, shape)
    \/ ~Observed /\ Clone("a", "b")
    \/ ~Observed /\ \E a \in ArrayIds, ix \in Indices : Get("array", a, ix)
    \/ ~Observed /\ \E a \in ArrayIds, ix \in Indices, x \in Values : GetMut("array", a, ix, x)
    \/ ~Observed /\ \E a \in ArrayIds, offset \in Offsets : RawGet(a, offset)
    \/ ~Observed /\ \E a \in ArrayIds, offset \in Offsets, x \in Values :
                        RawGetMut(a, offset, x)

SpecClone == Init /\ [][NextClone]_vars

\* ---------------------------------------------------------------- Add for Array
\* What the loads self._get_unchecked(0), ..., self._get_unchecked(size - 1) of
\* x may yield; own is the block of x.
LoadAll(x, own) ==
    {f \in [0 .. (size(x.dim) - 1) -> Values \cup {mem[s] : s \in Slots}] :
        \A k \in 0 .. (size(x.dim) - 1) : f[k] \in ReadOutcomes(PtrAdd(x.ptr, k), own)}

\* Memory after the stores of lhs[offset] + rhs[offset] through
\* res._get_mut_unchecked(offset) (stores through a null pointer are lost).
add_mem(m, ptr, n, lhs, rhs) ==
    [s \in Slots |-> IF ~ptr.null /\ s >= ptr.addr /\ s < ptr.addr + n
                     THEN lhs[s - ptr.addr] + rhs[s - ptr.addr] ELSE m[s]]

\* `let a = a + b`: add(self, other) of the Arrays a and b, both moved into the
\* call and dropped by it; the Array returned is bound to a.  A failed assert_eq
\* unwinds, which drops both operands.
Add(a, b) ==
    /\ Live(a) /\ Live(b)
    /\ LET self == arr[a]
           other == arr[b]
           n == size(self.dim)
       IN  IF self.dim # other.dim
           THEN /\ arr' = [arr EXCEPT ![a] = DroppedArray, ![b] = DroppedArray]
                /\ blk' = dealloc(dealloc(blk, a), b)
                /\ mem' = released_mem(released_mem(mem, blk[a]), blk[b])
                /\ last' = [op |-> "add", id |-> a, other |-> b,
                            dims |-> <<self.dim, other.dim>>,
                            res |-> [ok |-> FALSE, err |-> "panic"]]
           ELSE \E ptr \in AllocOutcomes(n), lhs \in LoadAll(self, blk[a]),
                   rhs \in LoadAll(other, blk[b]) :
                   /\ arr' = [arr EXCEPT ![a] = uninitialized(self.dim, ptr),
                                         ![b] = DroppedArray]
                   /\ blk' = [dealloc(blk, b) EXCEPT ![a] = BlockOf(ptr, n)]
                   /\ mem' = released_mem(released_mem(add_mem(mem, ptr, n, lhs, rhs),
                                                       blk[a]), blk[b])
                   /\ last' = [op |-> "add", id |-> a, other |-> b,
                               dims |-> <<self.dim, other.dim>>,
                               lhs |-> lhs, rhs |-> rhs, res |-> Ok(ptr)]
    /\ UNCHANGED <<rank, elem_size, view, sin, sout, dbg, ds>>

\* Programs that fill two Arrays, add them, and load from the sum.
NextAdd ==
    \/ ~Observed /\ \E a \in ArrayIds, item \in Values, shape \in Shapes : Fill(a, item, shape)
    \/ ~Observed /\ Add("a", "b")
    \/ ~Observed /\ \E offset \in Offsets : RawGet("a", offset)

SpecAdd == Init /\ [][NextAdd]_vars

\* ---------------------------------------------------------------- strides, applied
StrideRanks == 1 .. 3
StrideShapes == UNION {Tuples(n, 0 .. MaxStrideDim) : n \in StrideRanks}

InitStride ==
    /\ rank = 1
    /\ elem_size = 1
    /\ HeapInit
    /\ dbg = NoDebug
    /\ ds = NoDataset
    /\ sin \in [dim : StrideShapes, es : 0 .. MaxElemSize, word : WordSizes]
    /\ sout = NoResult

StridePacked ==
    /\ sout' = [fn |-> "stride_packed", res |-> stride_packed(sin.dim, sin.es)]
    /\ UNCHANGED <<rank, elem_size, mem, blk, arr, view, last, sin, dbg, ds>>

StrideStrided ==
    /\ sout' = [fn |-> "stride_strided", res |-> stride_strided(sin.dim, sin.es, sin.word)]
    /\ UNCHANGED <<rank, elem_size, mem, blk, arr, view, last, sin, dbg, ds>>

NextStride ==
    \/ StridePacked
    \/ StrideStrided

SpecStride == InitStride /\ [][NextStride]_vars

\* ---------------------------------------------------------------- Dual<F, N>
\* The float type F is modelled by the rationals, <<numerator, denominator>> in
\* lowest terms with a positive denominator: the operations are exact, and they
\* are applied to finite operands with a nonzero divisor only.

\* The number N of partial derivatives of a Dual.
DualN == 2
\* Largest absolute value of the real part of an operand.
MaxVal == 2

Abs(x) == IF x < 0 THEN -x ELSE x
Sgn(x) == IF x < 0 THEN -1 ELSE 1

RECURSIVE GCD(_, _)
GCD(x, y) == IF y = 0 THEN x ELSE GCD(y, x % y)

\* The rational n / d, d # 0.
Rat(n, d) ==
    LET g == GCD(Abs(n), Abs(d))
    IN  <<Sgn(n) * Sgn(d) * (Abs(n) \div g), Abs(d) \div g>>

F_zero == <<0, 1>>
F_one == <<1, 1>>
F_add(x, y) == Rat(x[1] * y[2] + y[1] * x[2], x[2] * y[2])
F_sub(x, y) == Rat(x[1] * y[2] - y[1] * x[2], x[2] * y[2])
F_mul(x, y) == Rat(x[1] * y[1], x[2] * y[2])
F_div(x, y) == Rat(x[1] * y[2], x[2] * y[1])
F_neg(x) == <<-x[1], x[2]>>
\* x % y of floats: x - trunc(x / y) * y, with the sign of x.
F_trunc(x) == <<Sgn(x[1]) * (Abs(x[1]) \div x[2]), 1>>
F_rem(x, y) == F_sub(x, F_mul(F_trunc(F_div(x, y)), y))
\* x.exp(), at the one argument where it is rational.
F_exp(x) == CASE x = F_zero -> F_one

Components == 1 .. DualN

new(val, e) == [val |-> val, e |-> e]
constant(val) == [val |-> val, e |-> [i \in Components |-> F_zero]]
\* index counts from 0.
variable(val, index) ==
    [val |-> val, e |-> [i \in Components |-> IF i = index + 1 THEN F_one ELSE F_zero]]
one == [val |-> F_one, e |-> [i \in Components |-> F_zero]]

\* Add, Sub for Dual
dual_add(self, other) ==
    [val |-> F_add(self.val, other.val),
     e |-> [i \in Components |-> F_add(self.e[i], other.e[i])]]

dual_sub(self, other) ==
    [val |-> F_sub(self.val, other.val),
     e |-> [i \in Components |-> F_sub(self.e[i], other.e[i])]]

\* Mul for Dual that multiplies each partial by the value of its own operand.
dual_mul_own_val(self, other) ==
    LET e1 == [i \in Components |-> F_mul(self.val, self.e[i])]
        e2 == [i \in Components |-> F_mul(other.val, other.e[i])]
    IN  [val |-> F_mul(self.val, other.val),
         e |-> [i \in Components |-> F_add(e1[i], e2[i])]]

\* Mul for Dual
dual_mul(self, other) ==
    LET e1 == [i \in Components |-> F_mul(other.val, self.e[i])]
        e2 == [i \in Components |-> F_mul(self.val, other.e[i])]
    IN  [val |-> F_mul(self.val, other.val),
         e |-> [i \in Components |-> F_add(e1[i], e2[i])]]

\* Div for Dual that divides the partials by other.val instead of its square.
dual_div_not_squared(self, other) ==
    LET e1 == [i \in Components |-> F_mul(other.val, self.e[i])]
        e2 == [i \in Components |-> F_mul(self.val, other.e[i])]
    IN  [val |-> F_div(self.val, other.val),
         e |-> [i \in Components |-> F_div(F_sub(e1[i], e2[i]), other.val)]]

\* Div for Dual
dual_div(self, other) ==
    LET e1 == [i \in Components |-> F_mul(other.val, self.e[i])]
        e2 == [i \in Components |-> F_mul(self.val, other.e[i])]
    IN  [val |-> F_div(self.val, other.val),
         e |-> [i \in Components |->
                   F_div(F_sub(e1[i], e2[i]), F_mul(other.val, other.val))]]

\* Rem for Dual
dual_rem(self, other) == [val |-> F_rem(self.val, other.val), e |-> self.e]

\* Neg for Dual and for &Dual
dual_neg(self) == [val |-> F_neg(self.val), e |-> self.e]
dual_neg_ref(self) == [val |-> F_neg(self.val), e |-> self.e]

\* Float::exp
dual_exp(self) ==
    LET val == F_exp(self.val)
    IN  new(val, [i \in Components |-> F_mul(self.e[i], val)])

\* Activation::Sigmoid of one element x: &Dual
sigmoid(x) == dual_div(one, dual_add(one, dual_exp(dual_neg_ref(x))))

\* Add<F>, Sub<F>, Mul<F>, Div<F>, Rem<F> for Dual
dual_add_real(self, other) == new(F_add(self.val, other), self.e)
dual_sub_real(self, other) == new(F_sub(self.val, other), self.e)
dual_mul_real(self, other) ==
    new(F_mul(self.val, other), [i \in Components |-> F_mul(self.e[i], other)])
dual_div_real(self, other) ==
    new(F_div(self.val, other), [i \in Components |-> F_div(self.e[i], other)])
dual_rem_real(self, other) ==
    new(F_rem(self.val, other), [i \in Components |-> F_div(self.e[i], other)])

\* Add<Dual>, Mul<Dual>, Div<Dual>, Rem<Dual> for the reals f32 and f64
real_add_dual(self, other) == new(F_add(self, other.val), other.e)
real_mul_dual(self, other) ==
    new(F_mul(self, other.val), [i \in Components |-> F_mul(self, other.e[i])])
real_div_dual(self, other) ==
    new(F_div(self, other.val), [i \in Components |-> F_zero])
real_rem_dual(self, other) == dual_rem(constant(self), other)

\* mod opassign: self after `self op= other`, other a Dual
add_assign(self, other) ==
    [val |-> F_add(self.val, other.val),
     e |-> [i \in Components |-> F_add(self.e[i], other.e[i])]]

sub_assign(self, other) ==
    [val |-> F_sub(self.val, other.val),
     e |-> [i \in Components |-> F_sub(self.e[i], other.e[i])]]

mul_assign(self, other) ==
    LET e1 == [i \in Components |-> F_mul(other.val, self.e[i])]
        e2 == [i \in Components |-> F_mul(self.val, other.e[i])]
    IN  [val |-> F_mul(self.val, other.val),
         e |-> [i \in Components |-> F_add(e1[i], e2[i])]]

div_assign(self, other) ==
    LET e1 == [i \in Components |-> F_mul(other.val, self.e[i])]
        e2 == [i \in Components |-> F_mul(self.val, other.e[i])]
    IN  [val |-> F_div(self.val, other.val),
         e |-> [i \in Components |->
                   F_div(F_sub(e1[i], e2[i]), F_mul(other.val, other.val))]]

rem_assign(self, other) ==
    LET e1 == [i \in Components |-> F_mul(other.val, self.e[i])]
        e2 == [i \in Components |-> F_mul(self.val, other.e[i])]
        res == [i \in Components |->
                   F_div(F_sub(e1[i], e2[i]), F_mul(other.val, other.val))]
    IN  [val |-> F_rem(self.val, other.val), e |-> res]

\* mod opassign: self after `self op= other`, other a real
add_assign_real(self, other) == [self EXCEPT !.val = F_add(@, other)]
sub_assign_real(self, other) == [self EXCEPT !.val = F_sub(@, other)]
mul_assign_real(self, other) ==
    [val |-> F_mul(self.val, other), e |-> [i \in Components |-> F_mul(self.e[i], other)]]
div_assign_real(self, other) ==
    [val |-> F_div(self.val, other), e |-> [i \in Components |-> F_div(self.e[i], other)]]
rem_assign_real(self, other) ==
    [val |-> F_rem(self.val, other), e |-> [i \in Components |-> F_div(self.e[i], other)]]

\* ---------------------------------------------------------------- Dual, applied
\* The operands: two Duals a and b and a real r.
Reals == {<<n, 1>> : n \in (-MaxVal) .. MaxVal}
Partials == {<<-1, 1>>, F_zero, F_one}
Duals == [val : Reals, e : [Components -> Partials]]

InitDual ==
    /\ rank = 1
    /\ elem_size = 1
    /\ HeapInit
    /\ dbg = NoDebug
    /\ ds = NoDataset
    /\ sin \in [a : Duals, b : Duals, r : Reals]
    /\ sout = NoResult

\* One operation is applied to the operands.
\* The operation fn returned res (for an op= operation: left res in self).
Returns(fn, res) ==
    /\ sout = NoResult
    /\ sout' = [fn |-> fn, ok |-> TRUE, res |-> res]
    /\ UNCHANGED <<rank, elem_size, mem, blk, arr, view, last, sin, dbg, ds>>

\* The operation fn panicked.
Panics(fn) ==
    /\ sout = NoResult
    /\ sout' = [fn |-> fn, ok |-> FALSE]
    /\ UNCHANGED <<rank, elem_size, mem, blk, arr, view, last, sin, dbg, ds>>

DualAdd == Returns("add", dual_add(sin.a, sin.b))
DualSub == Returns("sub", dual_sub(sin.a, sin.b))
DualMul == Returns("mul", dual_mul(sin.a, sin.b))
DualDiv == sin.b.val # F_zero /\ Returns("div", dual_div(sin.a, sin.b))
DualRem == sin.b.val # F_zero /\ Returns("rem", dual_rem(sin.a, sin.b))
DualNeg == Returns("neg", dual_neg(sin.a))
DualNegRef == Returns("neg_ref", dual_neg_ref(sin.a))
Sigmoid == sin.a.val = F_zero /\ Returns("sigmoid", sigmoid(sin.a))
DualAddReal == Returns("add_real", dual_add_real(sin.a, sin.r))
DualSubReal == Returns("sub_real", dual_sub_real(sin.a, sin.r))
DualMulReal == Returns("mul_real", dual_mul_real(sin.a, sin.r))
DualDivReal == sin.r # F_zero /\ Returns("div_real", dual_div_real(sin.a, sin.r))
DualRemReal == sin.r # F_zero /\ Returns("rem_real", dual_rem_real(sin.a, sin.r))
\* Sub<Dual> for the reals: unimplemented!()
RealSubDual == Panics("real_sub")
RealAddDual == Returns("real_add", real_add_dual(sin.r, sin.a))
RealMulDual == Returns("real_mul", real_mul_dual(sin.r, sin.a))
RealDivDual == sin.a.val # F_zero /\ Returns("real_div", real_div_dual(sin.r, sin.a))
RealRemDual == sin.a.val # F_zero /\ Returns("real_rem", real_rem_dual(sin.r, sin.a))
AddAssign == Returns("add_assign", add_assign(sin.a, sin.b))
SubAssign == Returns("sub_assign", sub_assign(sin.a, sin.b))
MulAssign == Returns("mul_assign", mul_assign(sin.a, sin.b))
DivAssign == sin.b.val # F_zero /\ Returns("div_assign", div_assign(sin.a, sin.b))
RemAssign == sin.b.val # F_zero /\ Returns("rem_assign", rem_assign(sin.a, sin.b))
AddAssignReal == Returns("add_assign_real", add_assign_real(sin.a, sin.r))
SubAssignReal == Returns("sub_assign_real", sub_assign_real(sin.a, sin.r))
MulAssignReal == Returns("mul_assign_real", mul_assign_real(sin.a, sin.r))
DivAssignReal == sin.r # F_zero /\ Returns("div_assign_real", div_assign_real(sin.a, sin.r))
RemAssignReal == sin.r # F_zero /\ Returns("rem_assign_real", rem_assign_real(sin.a, sin.r))

NextDual ==
    \/ DualAdd
    \/ DualSub
    \/ DualMul
    \/ DualDiv
    \/ DualRem
    \/ DualNeg
    \/ DualNegRef
    \/ Sigmoid
    \/ DualAddReal
    \/ DualSubReal
    \/ DualMulReal
    \/ DualDivReal
    \/ DualRemReal
    \/ RealAddDual
    \/ RealSubDual
    \/ RealMulDual
    \/ RealDivDual
    \/ RealRemDual
    \/ AddAssign
    \/ SubAssign
    \/ MulAssign
    \/ DivAssign
    \/ RemAssign
    \/ AddAssignReal
    \/ SubAssignReal
    \/ MulAssignReal
    \/ DivAssignReal
    \/ RemAssignReal

SpecDual == InitDual /\ [][NextDual]_vars

\* ---------------------------------------------------------------- Float for Dual
\* Values of the transcendental functions of F are irrational at all but a few
\* arguments.  They are kept as terms: a rational coefficient times an atom, the
\* atom being 1 or a power of one function value (ln 10, cosh 2, ...).
One == [fn |-> "one", arg |-> F_zero, pow |-> 1]
Term(coef, atom) ==
    IF coef = F_zero THEN [coef |-> F_zero, atom |-> One] ELSE [coef |-> coef, atom |-> atom]
T_rat(q) == Term(q, One)
T_inv(atom) == IF atom = One THEN One ELSE [atom EXCEPT !.pow = -@]
\* q * t, q / t and t.powi(n) for a rational q and a term t
T_scale(q, t) == Term(F_mul(q, t.coef), t.atom)
T_rdiv(q, t) == Term(F_div(q, t.coef), T_inv(t.atom))

\* x.powi(n), x # 0 if n < 0
RECURSIVE F_powi(_, _)
F_powi(x, n) ==
    IF n = 0 THEN F_one
    ELSE IF n < 0 THEN F_div(F_one, F_powi(x, -n))
    ELSE F_mul(x, F_powi(x, n - 1))

T_powi(t, n) ==
    Term(F_powi(t.coef, n), IF t.atom = One THEN One ELSE [t.atom EXCEPT !.pow = @ * n])

F_abs(x) == <<Abs(x[1]), x[2]>>
F_sgn(x) == <<Sgn(x[1]), 1>>
\* F::from(k).unwrap().ln(), k > 1
F_ln(k) == Term(F_one, [fn |-> "ln", arg |-> <<k, 1>>, pow |-> 1])
\* x.log2() and x.log10(), x > 0
F_log2(x) ==
    IF x = F_one THEN T_rat(F_zero)
    ELSE IF x = <<2, 1>> THEN T_rat(F_one)
    ELSE Term(F_one, [fn |-> "log2", arg |-> x, pow |-> 1])
F_log10(x) ==
    IF x = F_one THEN T_rat(F_zero)
    ELSE Term(F_one, [fn |-> "log10", arg |-> x, pow |-> 1])
\* x.sinh(), x.cosh(), x.tanh(): sinh and tanh are odd, cosh is even
F_sinh(x) == Term(IF x = F_zero THEN F_zero ELSE F_sgn(x),
                  [fn |-> "sinh", arg |-> F_abs(x), pow |-> 1])
F_cosh(x) == IF x = F_zero THEN T_rat(F_one)
             ELSE Term(F_one, [fn |-> "cosh", arg |-> F_abs(x), pow |-> 1])
F_tanh(x) == Term(IF x = F_zero THEN F_zero ELSE F_sgn(x),
                  [fn |-> "tanh", arg |-> F_abs(x), pow |-> 1])

\* x.floor(), x.ceil(), x.round() (halves away from zero), x.fract(), x.signum()
F_floor(x) == <<x[1] \div x[2], 1>>
F_ceil(x) == F_neg(F_floor(F_neg(x)))
F_round(x) == LET m == F_floor(F_add(F_abs(x), <<1, 2>>)) IN <<Sgn(x[1]) * m[1], 1>>
F_fract(x) == F_sub(x, F_trunc(x))
F_signum(x) == F_sgn(x)

\* Float::powi
powi(self, n) ==
    LET exp == <<n, 1>>
        e == [i \in Components |-> F_mul(exp, F_powi(self.e[i], n - 1))]
    IN  new(F_powi(self.val, n), e)

\* Float::log2, Float::log10
log2(self) ==
    LET e == [i \in Components |-> T_rdiv(self.e[i], T_scale(self.val, F_ln(10)))]
    IN  new(F_log2(self.val), e)

log10(self) ==
    LET e == [i \in Components |-> T_rdiv(self.e[i], T_scale(self.val, F_ln(10)))]
    IN  new(F_log10(self.val), e)

\* Float::sinh, Float::cosh, Float::tanh
sinh(self) ==
    LET e == [i \in Components |-> T_scale(self.e[i], F_cosh(self.val))]
    IN  new(F_sinh(self.val), e)

cosh(self) ==
    LET e == [i \in Components |-> T_scale(self.e[i], F_sinh(self.e[i]))]
    IN  new(F_cosh(self.val), e)

tanh(self) ==
    LET cosh_val == F_cosh(self.val)
        e == [i \in Components |-> T_rdiv(self.e[i], T_powi(cosh_val, 2))]
    IN  new(F_tanh(self.val), e)

\* float_impl_self_passthrough!(floor, ceil, round, trunc)
floor(self) == constant(F_floor(self.val))
ceil(self) == constant(F_ceil(self.val))
round(self) == constant(F_round(self.val))
trunc(self) == constant(F_trunc(self.val))

\* Float::fract, Float::signum
fract(self) == new(F_fract(self.val), [i \in Components |-> F_one])
signum(self) == new(F_signum(self.val), [i \in Components |-> F_zero])

\* ---------------------------------------------------------------- Float, applied
\* Largest exponent powi is applied with.
MaxPow == 3
PowiExps == (-1) .. MaxPow
\* Operands with a whole or a half value.
Halves == {Rat(n, 2) : n \in (-2 * MaxVal) .. (2 * MaxVal)}
FloatDuals == [val : Halves, e : [Components -> Partials]]

InitFloat ==
    /\ rank = 1
    /\ elem_size = 1
    /\ HeapInit
    /\ dbg = NoDebug
    /\ ds = NoDataset
    /\ sin \in [a : FloatDuals, n : PowiExps]
    /\ sout = NoResult

\* powi, where its value and its partials are finite.
Powi ==
    /\ sin.n >= 1 \/ (sin.a.val # F_zero /\ \A i \in Components : sin.a.e[i] # F_zero)
    /\ Returns("powi", powi(sin.a, sin.n))
Log2 == sin.a.val[1] > 0 /\ Returns("log2", log2(sin.a))
Log10 == sin.a.val[1] > 0 /\ Returns("log10", log10(sin.a))
Sinh == Returns("sinh", sinh(sin.a))
Cosh == Returns("cosh", cosh(sin.a))
Tanh == Returns("tanh", tanh(sin.a))
Floor == Returns("floor", floor(sin.a))
Ceil == Returns("ceil", ceil(sin.a))
Round == Returns("round", round(sin.a))
Trunc == Returns("trunc", trunc(sin.a))
Fract == Returns("fract", fract(sin.a))
Signum == Returns("signum", signum(sin.a))

NextFloat ==
    \/ Powi
    \/ Log2
    \/ Log10
    \/ Sinh
    \/ Cosh
    \/ Tanh
    \/ Floor
    \/ Ceil
    \/ Round
    \/ Trunc
    \/ Fract
    \/ Signum

SpecFloat == InitFloat /\ [][NextFloat]_vars

\* ---------------------------------------------------------------- comparison of Duals
\* x.partial_cmp(y) of two finite values of F
F_partial_cmp(x, y) ==
    IF x[1] * y[2] < y[1] * x[2] THEN "Less"
    ELSE IF x[1] * y[2] > y[1] * x[2] THEN "Greater" ELSE "Equal"

\* PartialEq for Dual that also compares the partials.
eq_with_partials(self, other) == self.val = other.val /\ self.e = other.e

\* PartialEq for Dual, PartialEq<D> for Dual (D: NotADual)
eq(self, other) == self.val = other.val
eq_real(self, other) == self.val = other

\* PartialOrd for Dual, PartialOrd<D> for Dual (D: NotADual)
partial_cmp(self, other) == F_partial_cmp(self.val, other.val)
partial_cmp_real(self, other) == F_partial_cmp(self.val, other)

\* a == b, a < b, a == r, a < r
DualEq == Returns("eq", eq(sin.a, sin.b))
DualLt == Returns("lt", partial_cmp(sin.a, sin.b) = "Less")
DualEqReal == Returns("eq_real", eq_real(sin.a, sin.r))
DualLtReal == Returns("lt_real", partial_cmp_real(sin.a, sin.r) = "Less")

NextCmp ==
    \/ DualEq
    \/ DualLt
    \/ DualEqReal
    \/ DualLtReal

SpecCmp == InitDual /\ [][NextCmp]_vars

\* ---------------------------------------------------------------- classification of Duals
\* A value of F, by its FpCategory.
FpCategory == {"Nan", "Infinite", "Zero", "Subnormal", "Normal"}
F_is_nan(x) == x = "Nan"
F_is_infinite(x) == x = "Infinite"
F_is_finite(x) == x \notin {"Nan", "Infinite"}
F_is_normal(x) == x = "Normal"

\* Dual::is_nan, is_infinite, is_finite, is_normal (F: FloatCore)
is_nan(self) == F_is_nan(self.val) \/ \E i \in Components : F_is_nan(self.e[i])
is_infinite(self) ==
    ~is_nan(self) /\ (F_is_infinite(self.val) \/ \E i \in Components : F_is_infinite(self.e[i]))
is_finite(self) == F_is_finite(self.val) /\ \A i \in Components : F_is_finite(self.e[i])
is_normal(self) == F_is_normal(self.val) /\ \A i \in Components : F_is_normal(self.e[i])

\* float_impl_passthrough!(bool, is_nan, is_infinite, is_finite, is_normal, ...)
Float_is_nan(self) == F_is_nan(self.val)
Float_is_infinite(self) == F_is_infinite(self.val)
Float_is_finite(self) == F_is_finite(self.val)
Float_is_normal(self) == F_is_normal(self.val)

InitClass ==
    /\ rank = 1
    /\ elem_size = 1
    /\ HeapInit
    /\ dbg = NoDebug
    /\ ds = NoDataset
    /\ sin \in [a : [val : FpCategory, e : [Components -> FpCategory]]]
    /\ sout = NoResult

IsNan == Returns("is_nan", is_nan(sin.a))
IsInfinite == Returns("is_infinite", is_infinite(sin.a))
IsFinite == Returns("is_finite", is_finite(sin.a))
IsNormal == Returns("is_normal", is_normal(sin.a))
FloatIsNan == Returns("Float::is_nan", Float_is_nan(sin.a))
FloatIsInfinite == Returns("Float::is_infinite", Float_is_infinite(sin.a))
FloatIsFinite == Returns("Float::is_finite", Float_is_finite(sin.a))
FloatIsNormal == Returns("Float::is_normal", Float_is_normal(sin.a))

NextClass ==
    \/ IsNan
    \/ IsInfinite
    \/ IsFinite
    \/ IsNormal
    \/ FloatIsNan
    \/ FloatIsInfinite
    \/ FloatIsFinite
    \/ FloatIsNormal

SpecClass == InitClass /\ [][NextClass]_vars

\* ---------------------------------------------------------------- DebugAllocator
\* Each thread has a stack of calls: calls of the allocator's methods and, above
\* the call whose run_guarded runs it, the logging closure, which may itself
\* allocate.
Threads == {"t1", "t2"}
AllocMethods == {"alloc", "dealloc", "alloc_zeroed", "realloc"}
\* What formatting a log message calls.
LogMethods == {"alloc", "dealloc"}
\* Calls of the allocator a thread's program makes, and allocations one logging
\* closure makes.
MaxCalls == 2
MaxLogAllocs == 1

\* run_guarded entered with the flag g, clearing the flag when it skips f.
run_guarded_clears(g) == [runs |-> ~g, guard |-> ~g]

\* run_guarded entered with the flag g: guard.replace(true), and f runs if the
\* flag was clear.
run_guarded(g) == [runs |-> ~g, guard |-> TRUE]

\* A call of an allocator method: dealloc logs and then calls System, the others
\* call System and then log.
AllocCall(method) ==
    [kind |-> method, pc |-> IF method = "dealloc" THEN "log" ELSE "system",
     fwd |-> 0, ran |-> 0, skipped |-> FALSE, allocs |-> 0]
Closure == [kind |-> "closure", pc |-> "f", fwd |-> 0, ran |-> 0, skipped |-> FALSE,
            allocs |-> 0]
NoCall == [thread |-> "none"]

Top(t) == dbg.stack[t][Len(dbg.stack[t])]
SetTop(t, frame) == [dbg.stack[t] EXCEPT ![Len(dbg.stack[t])] = frame]
Pop(t) == SubSeq(dbg.stack[t], 1, Len(dbg.stack[t]) - 1)
InCall(t) == dbg.stack[t] # <<>> /\ Top(t).kind \in AllocMethods
InClosure(t) == dbg.stack[t] # <<>> /\ Top(t).kind = "closure"

InitGuard ==
    /\ rank = 1
    /\ elem_size = 1
    /\ HeapInit
    /\ sin = NoInput
    /\ sout = NoResult
    /\ ds = NoDataset
    /\ dbg = [threads |-> Threads,
              guard |-> [t \in Threads |-> FALSE],
              stack |-> [t \in Threads |-> <<>>],
              calls |-> [t \in Threads |-> 0],
              ret |-> NoCall]

\* The program of thread t calls a method of the global allocator.
Request(t, method) ==
    /\ dbg.stack[t] = <<>>
    /\ dbg.calls[t] < MaxCalls
    /\ dbg' = [dbg EXCEPT !.stack[t] = <<AllocCall(method)>>, !.calls[t] = @ + 1]
    /\ UNCHANGED <<rank, elem_size, mem, blk, arr, view, last, sin, sout, ds>>

\* The logging closure of thread t allocates or frees (it formats a message).
LogAllocates(t, method) ==
    /\ InClosure(t)
    /\ Top(t).allocs < MaxLogAllocs
    /\ dbg' = [dbg EXCEPT !.stack[t] =
                  Append(SetTop(t, [Top(t) EXCEPT !.allocs = @ + 1]), AllocCall(method))]
    /\ UNCHANGED <<rank, elem_size, mem, blk, arr, view, last, sin, sout, ds>>

\* System.alloc / dealloc / alloc_zeroed / realloc
Forward(t) ==
    /\ InCall(t)
    /\ Top(t).pc = "system"
    /\ dbg' = [dbg EXCEPT !.stack[t] =
                  SetTop(t, [Top(t) EXCEPT !.fwd = @ + 1,
                                           !.pc = IF @ = "system" /\ Top(t).kind = "dealloc"
                                                  THEN "ret" ELSE "log"])]
    /\ UNCHANGED <<rank, elem_size, mem, blk, arr, view, last, sin, sout, ds>>

\* run_guarded(f) up to the call of f, or all of it if f is skipped.
RunGuarded(t) ==
    /\ InCall(t)
    /\ Top(t).pc = "log"
    /\ LET r == run_guarded(dbg.guard[t])
           after == IF Top(t).kind = "dealloc" THEN "system" ELSE "ret"
       IN  dbg' = [dbg EXCEPT
                     !.guard[t] = r.guard,
                     !.stack[t] =
                         IF r.runs
                         THEN Append(SetTop(t, [Top(t) EXCEPT !.pc = "f"]), Closure)
                         ELSE SetTop(t, [Top(t) EXCEPT !.pc = after, !.skipped = TRUE])]
    /\ UNCHANGED <<rank, elem_size, mem, blk, arr, view, last, sin, sout, ds>>

\* f returns, and run_guarded clears the flag: guard.set(false).
ClosureReturns(t) ==
    /\ InClosure(t)
    /\ LET caller == dbg.stack[t][Len(dbg.stack[t]) - 1]
           after == IF caller.kind = "dealloc" THEN "system" ELSE "ret"
       IN  dbg' = [dbg EXCEPT
                     !.guard[t] = FALSE,
                     !.stack[t] = [Pop(t) EXCEPT ![Len(dbg.stack[t]) - 1] =
                                       [caller EXCEPT !.pc = after, !.ran = @ + 1]]]
    /\ UNCHANGED <<rank, elem_size, mem, blk, arr, view, last, sin, sout, ds>>

\* The allocator method returns to its caller.
Return(t) ==
    /\ InCall(t)
    /\ Top(t).pc = "ret"
    /\ dbg' = [dbg EXCEPT
                 !.stack[t] = Pop(t),
                 !.ret = [thread |-> t, kind |-> Top(t).kind, fwd |-> Top(t).fwd,
                          ran |-> Top(t).ran, skipped |-> Top(t).skipped,
                          depth |-> Len(dbg.stack[t]) - 1]]
    /\ UNCHANGED <<rank, elem_size, mem, blk, arr, view, last, sin, sout, ds>>

NextGuard ==
    \/ \E t \in Threads, method \in AllocMethods : Request(t, method)
    \/ \E t \in Threads, method \in LogMethods : LogAllocates(t, method)
    \/ \E t \in Threads : Forward(t)
    \/ \E t \in Threads : RunGuarded(t)
    \/ \E t \in Threads : ClosureReturns(t)
    \/ \E t \in Threads : Return(t)

SpecGuard == InitGuard /\ [][NextGuard]_vars

\* ---------------------------------------------------------------- Dataset
\* Rows of records. / labels., the largest BatchSize::Number, and the calls of next
\* that return None a run follows.
MaxRows == 4
MaxBatch == 3
MaxNones == 2

\* usize is at least 16 bits wide; a subtraction that wraps leaves a value above
\* every row count at any width.
UsizeModulus == 2 ^ 16
\* Overflow checks are on in a debug build and off in a release build.
Builds == {"debug", "release"}

\* train_test_split: quarters, which f64 holds and multiplies exactly.
Splits == {Rat(k, 4) : k \in (-1) .. 6}
BatchSizes ==
    {[tag |-> "All"], [tag |-> "One"]} \cup {[tag |-> "Number", num |-> n] : n \in 0 .. MaxBatch}

\* Row i of an Array2 is named by its index.
Rows(n) == [i \in 1 .. n |-> i - 1]

Panicked(msg) == [ok |-> FALSE, panic |-> msg]

\* f as usize: truncates, and saturates at 0 below it.
as_usize(f) == IF f[1] < 0 THEN 0 ELSE f[1] \div f[2]

\* a.slice(s![lo..hi, ..]), rows numbered from 0
slice(a, lo, hi) ==
    IF lo <= hi /\ hi <= Len(a) THEN Ok(SubSeq(a, lo + 1, hi))
    ELSE Panicked("slice out of bounds")

\* usize - usize
usize_sub(x, y, build) ==
    IF x >= y THEN Ok(x - y)
    ELSE IF build = "debug" THEN Panicked("attempt to subtract with overflow")
         ELSE Ok(x - y + UsizeModulus)

\* usize::div_euclid
div_euclid(x, y) ==
    IF y = 0 THEN Panicked("attempt to divide by zero") ELSE Ok(x \div y)

SampleIterator(index, num_batches, batch_size, samples, labels) ==
    [index |-> index, num_batches |-> num_batches, batch_size |-> batch_size,
     samples |-> samples, labels |-> labels]

\* (self.records.nrows() as f64 * self.train_test_split) as usize
num_train_of(d) == as_usize(F_mul(Rat(Len(d.records), 1), d.train_test_split))

batch_size_of(d, all) ==
    CASE d.batch_size.tag = "One" -> 1
      [] d.batch_size.tag = "All" -> all
      [] d.batch_size.tag = "Number" -> d.batch_size.num

iter_train(d) ==
    LET num_train == num_train_of(d)
        batch_size == batch_size_of(d, num_train)
        num_batches == div_euclid(num_train, batch_size)
        samples == slice(d.records, 0, num_train)
        labels == slice(d.labels, 0, num_train)
    IN  IF ~num_batches.ok THEN num_batches
        ELSE IF ~samples.ok THEN samples
        ELSE IF ~labels.ok THEN labels
        ELSE Ok(SampleIterator(0, num_batches.val, batch_size, samples.val, labels.val))

iter_test(d, build) ==
    LET num_train == num_train_of(d)
        num_test == usize_sub(Len(d.records), num_train, build)
    IN  IF ~num_test.ok THEN num_test
        ELSE LET batch_size == batch_size_of(d, num_test.val)
                 num_batches == div_euclid(num_test.val, batch_size)
                 samples == slice(d.records, num_train, Len(d.records))
                 labels == slice(d.labels, num_train, Len(d.labels))
             IN  IF ~num_batches.ok THEN num_batches
                 ELSE IF ~samples.ok THEN samples
                 ELSE IF ~labels.ok THEN labels
                 ELSE Ok(SampleIterator(0, num_batches.val, batch_size, samples.val,
                                        labels.val))

\* next testing the index with > instead of >=.
exhausted_gt(it) == it.index > it.num_batches

\* self.index >= self.num_batches
exhausted(it) == it.index >= it.num_batches

\* SampleIterator::next: the iterator after the call, and what the call returns
\* (reversed_axes turns the rows of the batch into columns, in the same order).
next(it) ==
    IF exhausted(it) THEN Ok([it |-> it, item |-> "None"])
    ELSE LET batched_samples == slice(it.samples, it.index * it.batch_size,
                                      (it.index + 1) * it.batch_size)
             batched_labels == slice(it.labels, it.index * it.batch_size,
                                     (it.index + 1) * it.batch_size)
         IN  IF ~batched_samples.ok THEN batched_samples
             ELSE IF ~batched_labels.ok THEN batched_labels
             ELSE Ok([it |-> [it EXCEPT !.index = @ + 1],
                      item |-> <<batched_samples.val, batched_labels.val>>])

\* ---------------------------------------------------------------- Dataset, applied
\* One Dataset and the iterators taken from it; of each iterator, the batches its
\* next has returned so far and how many times it has returned None.
Parts == {"train", "test"}
NoIterator == [st |-> "none"]

InitData ==
    /\ rank = 1
    /\ elem_size = 1
    /\ HeapInit
    /\ sin = NoInput
    /\ sout = NoResult
    /\ dbg = NoDebug
    /\ \E nrows \in 0 .. MaxRows, split \in Splits, batch_size \in BatchSizes :
          ds = [nrows |-> nrows,
                data |-> [train_test_split |-> split, records |-> Rows(nrows),
                          labels |-> Rows(nrows), batch_size |-> batch_size],
                train |-> NoIterator,
                test |-> NoIterator,
                panic |-> "none"]

Obtained(part, it) ==
    ds' = [ds EXCEPT ![part] = [st |-> "iter", it |-> it, out |-> <<>>, nones |-> 0]]

IterTrain ==
    /\ ds.panic = "none"
    /\ ds.train.st = "none"
    /\ iter_train(ds.data).ok
    /\ Obtained("train", iter_train(ds.data).val)
    /\ UNCHANGED <<rank, elem_size, mem, blk, arr, view, last, sin, sout, dbg>>

IterTrainPanics ==
    /\ ds.panic = "none"
    /\ ds.train.st = "none"
    /\ ~iter_train(ds.data).ok
    /\ ds' = [ds EXCEPT !.panic = "iter_train"]
    /\ UNCHANGED <<rank, elem_size, mem, blk, arr, view, last, sin, sout, dbg>>

IterTest(build) ==
    /\ ds.panic = "none"
    /\ ds.test.st = "none"
    /\ iter_test(ds.data, build).ok
    /\ Obtained("test", iter_test(ds.data, build).val)
    /\ UNCHANGED <<rank, elem_size, mem, blk, arr, view, last, sin, sout, dbg>>

IterTestPanics(build) ==
    /\ ds.panic = "none"
    /\ ds.test.st = "none"
    /\ ~iter_test(ds.data, build).ok
    /\ ds' = [ds EXCEPT !.panic = "iter_test"]
    /\ UNCHANGED <<rank, elem_size, mem, blk, arr, view, last, sin, sout, dbg>>

\* A call of next on the iterator of this part.
CallNext(part) ==
    /\ ds.panic = "none"
    /\ ds[part].st = "iter"
    /\ LET r == next(ds[part].it)
       IN  IF ~r.ok THEN ds' = [ds EXCEPT !.panic = "next"]
           ELSE IF r.val.item = "None"
                THEN /\ ds[part].nones < MaxNones
                     /\ ds' = [ds EXCEPT ![part].it = r.val.it, ![part].nones = @ + 1]
                ELSE ds' = [ds EXCEPT ![part].it = r.val.it,
                                      ![part].out = Append(@, r.val.item)]
    /\ UNCHANGED <<rank, elem_size, mem, blk, arr, view, last, sin, sout, dbg>>

NextData ==
    \/ IterTrain
    \/ IterTrainPanics
    \/ \E build \in Builds : IterTest(build)
    \/ \E build \in Builds : IterTestPanics(build)
    \/ \E part \in Parts : CallNext(part)

SpecData == InitData /\ [][NextData]_vars

\* ---------------------------------------------------------------- properties
\* Row-major linear position of the multi-index ix in an array of this shape.
RECURSIVE linear_of(_, _)
linear_of(shape, ix) ==
    IF ix = <<>> THEN 0
    ELSE Head(ix) * product(Tail(shape)) + linear_of(Tail(shape), Tail(ix))

RECURSIVE dot(_, _)
dot(i, st) == IF i = <<>> THEN 0 ELSE Head(i) * Head(st) + dot(Tail(i), Tail(st))

InRange(x, ix) == \A k \in 1 .. Len(ix) : ix[k] < x.dim[k]

\* The elements of the owning Array x in memory m, in flattened order.
Contents(m, x) == [k \in 0 .. (size(x.dim) - 1) |-> m[x.ptr.addr + k]]

\* C1: get(ix) of an owning Array refers to the element _get(k) refers to, where k
\* is the row-major linear position of ix.
C1_GetIsRawGetOfLinear ==
    (last.op = "get" /\ last.kind = "array" /\ last.res.ok) =>
        last.res = _get(arr[last.id], linear_of(arr[last.id].dim, last.ix))

\* C2: every allocation is released exactly once, by the drop of the Array that
\* owns it: never twice, never while the owner lives (so not by creating or
\* dropping a view), and always once the owner is dropped.
C2_ReleasedExactlyOnce ==
    \A a \in ArrayIds :
        /\ blk[a].frees <= 1
        /\ arr[a].st = "none" => ~blk[a].allocated
        /\ (Live(a) /\ blk[a].allocated) => blk[a].frees = 0
        /\ (arr[a].st = "dropped" /\ blk[a].allocated) => blk[a].frees = 1

\* Two allocations were made, a view of one was taken and dropped, and both
\* owners are dropped.
C2_Witness ==
    /\ \A a \in ArrayIds : arr[a].st = "dropped" /\ blk[a].allocated /\ blk[a].frees = 1
    /\ view["v"].st = "dropped"

\* C3: no view is read or written after the allocation of its parent was released.
C3_NoUseAfterParentReleased ==
    (last.op \in {"get", "get_mut"} /\ last.kind = "view" /\ last.res.ok) =>
        blk[view[last.id].parent].frees = 0

\* C4: for a view V = A.borrow(i1, i2) that lies inside A, a value stored through
\* A at i1 + j is the value loaded through V at j.
C4_StoreThroughParentSeenInView ==
    [][(/\ last.op = "get_mut" /\ last.kind = "array" /\ last.res.ok
        /\ ~arr[last.id].ptr.null
        /\ last'.op = "get" /\ last'.kind = "view" /\ last'.res.ok
        /\ view[last'.id].parent = last.id
        /\ last.ix = [k \in 1 .. rank |-> view[last'.id].i1[k] + last'.ix[k]])
       => last'.val = last.val]_vars

\* C5: a clone has the shape, the stride and the elements of the original, and a
\* store to an element of one of the two leaves the elements of the other unchanged.
C5_CloneEqualAndIndependent ==
    [][/\ (last'.op = "clone" /\ ~arr'[last'.id].ptr.null /\ ~arr'[last'.src].ptr.null)
          => /\ arr'[last'.id].dim = arr'[last'.src].dim
             /\ arr'[last'.id].stride = arr'[last'.src].stride
             /\ Contents(mem', arr'[last'.id]) = Contents(mem', arr'[last'.src])
       /\ (last'.op = "get_mut" /\ last'.res.ok)
          => \A b \in ArrayIds \ {last'.id} :
                (Live(b) /\ ~arr[b].ptr.null /\ ~arr[last'.id].ptr.null)
                    => Contents(mem', arr[b]) = Contents(mem, arr[b])]_vars

\* C6: fill(v, s) returns an Array of size product(s), and get(ix) of it yields v
\* at every in-range ix.
C6_FillThenGet ==
    [][/\ last'.op = "fill" => size(arr'[last'.id].dim) = product(last'.shape)
       /\ (/\ last.op = "fill" /\ ~arr[last.id].ptr.null
           /\ last'.op = "get" /\ last'.kind = "array" /\ last'.id = last.id
           /\ last'.res.ok)
          => last'.val = last.item]_vars

\* C7: get(ix) and get_mut(ix) fail exactly when some ix[i] >= shape[i]; the error
\* is IndexOutOfBounds with the lowest such axis, its index and its size, and
\* arrays, views and memory are as before the call.
C7_IndexOutOfBounds ==
    [][last'.op \in {"get", "get_mut"} =>
        LET x == Target(last'.kind, last'.id)
            bad == {i \in 1 .. rank : last'.ix[i] >= x.dim[i]}
        IN  /\ last'.res.ok <=> bad = {}
            /\ bad # {} =>
                /\ last'.res = [ok |-> FALSE, err |-> "IndexOutOfBounds",
                                ix |-> last'.ix[Min(bad)], axis_ix |-> Min(bad) - 1,
                                axis_size |-> x.dim[Min(bad)]]
                /\ last'.res.ix >= last'.res.axis_size
                /\ mem' = mem /\ arr' = arr /\ view' = view /\ blk' = blk]_vars

\* get_mut failed on the second axis of a view while its first index was in range.
C7_Witness ==
    /\ last.op = "get_mut" /\ last.kind = "view" /\ ~last.res.ok
    /\ last.res.err = "IndexOutOfBounds" /\ last.res.axis_ix = 1

C9_StridePacked ==
    sout.fn = "stride_packed" =>
        LET N == Len(sin.dim)
        IN  /\ Len(sout.res) = N
            /\ sout.res[N] = sin.es
            /\ \A i \in 1 .. (N - 1) : sout.res[i] = sin.dim[i + 1] * sout.res[i + 1]
            /\ (sin.dim = <<2, 3, 4>> /\ sin.es = 2) => sout.res = <<24, 8, 2>>

C9_Witness ==
    /\ sout.fn = "stride_packed"
    /\ sin.dim = <<2, 3, 4>> /\ sin.es = 2
    /\ sout.res = <<24, 8, 2>>

\* C10: stride_strided(shape, w) has as last stride the smallest multiple of the
\* word size that is >= w, and stride[i] = shape[i + 1] * stride[i + 1] below; for
\* shape (2, 3, 4), w = 2 and word size 8 it is (96, 32, 8).
C10_StrideStrided ==
    sout.fn = "stride_strided" =>
        LET N == Len(sin.dim)
            multiples == {m \in 0 .. (sin.es + sin.word) : m % sin.word = 0 /\ m >= sin.es}
        IN  /\ Len(sout.res) = N
            /\ sout.res[N] = Min(multiples)
            /\ \A i \in 1 .. (N - 1) : sout.res[i] = sin.dim[i + 1] * sout.res[i + 1]
            /\ (sin.dim = <<2, 3, 4>> /\ sin.es = 2 /\ sin.word = 8)
                   => sout.res = <<96, 32, 8>>

C10_Witness ==
    /\ sout.fn = "stride_strided"
    /\ sin.dim = <<2, 3, 4>> /\ sin.es = 2 /\ sin.word = 8
    /\ sout.res = <<96, 32, 8>>

\* C11: when the allocator returns no memory, construction fails with an error, so
\* no Array of one or more elements ever holds a null base pointer.
C11_NoArrayWithNullBase ==
    \A a \in ArrayIds : (Live(a) /\ size(arr[a].dim) > 0) => ~arr[a].ptr.null

\* C12: adding two Arrays of different shapes returns an error (it does not panic);
\* adding two Arrays of equal shape returns an Array of that shape that holds the
\* element-wise sums.
C12_AddShapeErrorOrSums ==
    last.op = "add" =>
        /\ last.dims[1] # last.dims[2] => (~last.res.ok /\ last.res.err # "panic")
        /\ (last.dims[1] = last.dims[2] /\ ~last.res.val.null) =>
              /\ arr[last.id].dim = last.dims[1]
              /\ Contents(mem, arr[last.id]) =
                     [k \in 0 .. (size(last.dims[1]) - 1) |-> last.lhs[k] + last.rhs[k]]

\* C13: (a * b).val = a.val * b.val and (a * b).e[i] = b.val * a.e[i] + a.val * b.e[i]
\* for every component i.
C13_ProductRule ==
    sout.fn = "mul" =>
        /\ sout.res.val = F_mul(sin.a.val, sin.b.val)
        /\ \A i \in Components :
              sout.res.e[i] = F_add(F_mul(sin.b.val, sin.a.e[i]), F_mul(sin.a.val, sin.b.e[i]))

\* (2, [1, 0]) * (-1, [1, -1]) = (-2, [1, -2])
C13_Witness ==
    /\ sout.fn = "mul"
    /\ sin.a = [val |-> <<2, 1>>, e |-> <<F_one, F_zero>>]
    /\ sin.b = [val |-> <<-1, 1>>, e |-> <<F_one, <<-1, 1>>>>]
    /\ sout.res = [val |-> <<-2, 1>>, e |-> <<F_one, <<-2, 1>>>>]

\* C14: for b.val # 0, (a / b).val = a.val / b.val and (a / b).e[i] =
\* (b.val * a.e[i] - a.val * b.e[i]) / (b.val * b.val) for every component i.
C14_QuotientRule ==
    (sout.fn = "div" /\ sin.b.val # F_zero) =>
        /\ sout.res.val = F_div(sin.a.val, sin.b.val)
        /\ \A i \in Components :
              sout.res.e[i] =
                  F_div(F_sub(F_mul(sin.b.val, sin.a.e[i]), F_mul(sin.a.val, sin.b.e[i])),
                        F_mul(sin.b.val, sin.b.val))

\* (1, [1, 1]) / (2, [1, -1]) = (1/2, [1/4, 3/4])
C14_Witness ==
    /\ sout.fn = "div"
    /\ sin.a = [val |-> F_one, e |-> <<F_one, F_one>>]
    /\ sin.b = [val |-> <<2, 1>>, e |-> <<F_one, <<-1, 1>>>>]
    /\ sout.res = [val |-> <<1, 2>>, e |-> <<<<1, 4>>, <<3, 4>>>>]

\* C15: for a Dual a taken by value or by reference, (-a).val = -a.val and
\* (-a).e[i] = -a.e[i] for every component i.
C15_NegNegatesPartials ==
    sout.fn \in {"neg", "neg_ref"} =>
        /\ sout.res.val = F_neg(sin.a.val)
        /\ \A i \in Components : sout.res.e[i] = F_neg(sin.a.e[i])

\* C16: for x = variable(0.0, 0), one / (one + exp(-x)) has val 1/2, e[0] = 1/4 and
\* every other partial 0.
C16_SigmoidAtZero ==
    (sout.fn = "sigmoid" /\ sin.a = variable(F_zero, 0)) =>
        /\ sout.res.val = <<1, 2>>
        /\ sout.res.e[1] = <<1, 4>>
        /\ \A i \in Components \ {1} : sout.res.e[i] = F_zero

\* C17: each operation of a Dual a and a real r returns what the operation of two
\* Duals returns with constant(r) in the place of r: a + r, a - r, a * r, a / r
\* and r + a, r * a, r / a.
C17_RealIsConstantDual ==
    /\ sout.fn = "add_real" => sout.res = dual_add(sin.a, constant(sin.r))
    /\ sout.fn = "sub_real" => sout.res = dual_sub(sin.a, constant(sin.r))
    /\ sout.fn = "mul_real" => sout.res = dual_mul(sin.a, constant(sin.r))
    /\ sout.fn = "div_real" => sout.res = dual_div(sin.a, constant(sin.r))
    /\ sout.fn = "real_add" => sout.res = dual_add(constant(sin.r), sin.a)
    /\ sout.fn = "real_mul" => sout.res = dual_mul(constant(sin.r), sin.a)
    /\ sout.fn = "real_div" => sout.res = dual_div(constant(sin.r), sin.a)

\* C18: r - a returns a Dual with val = r - a.val and e[i] = -a.e[i] for every
\* component i; it does not panic.
C18_RealMinusDual ==
    sout.fn = "real_sub" =>
        /\ sout.ok
        /\ sout.res.val = F_sub(sin.r, sin.a.val)
        /\ \A i \in Components : sout.res.e[i] = F_neg(sin.a.e[i])

\* C19: for a divisor of nonzero value, a Dual b or a real r, (a mod b).val =
\* a.val mod the divisor's value and (a mod b).e[i] = a.e[i] for every component i.
C19_RemPassesPartials ==
    /\ (sout.fn = "rem" /\ sin.b.val # F_zero) =>
          /\ sout.res.val = F_rem(sin.a.val, sin.b.val)
          /\ sout.res.e = sin.a.e
    /\ (sout.fn = "rem_real" /\ sin.r # F_zero) =>
          /\ sout.res.val = F_rem(sin.a.val, sin.r)
          /\ sout.res.e = sin.a.e

\* C20: `a op= b` leaves in a what `a op b` returns, for op in +, -, *, /, % and b
\* a Dual or a real.
C20_OpAssignIsBinaryOp ==
    /\ sout.fn = "add_assign" => sout.res = dual_add(sin.a, sin.b)
    /\ sout.fn = "sub_assign" => sout.res = dual_sub(sin.a, sin.b)
    /\ sout.fn = "mul_assign" => sout.res = dual_mul(sin.a, sin.b)
    /\ sout.fn = "div_assign" => sout.res = dual_div(sin.a, sin.b)
    /\ sout.fn = "rem_assign" => sout.res = dual_rem(sin.a, sin.b)
    /\ sout.fn = "add_assign_real" => sout.res = dual_add_real(sin.a, sin.r)
    /\ sout.fn = "sub_assign_real" => sout.res = dual_sub_real(sin.a, sin.r)
    /\ sout.fn = "mul_assign_real" => sout.res = dual_mul_real(sin.a, sin.r)
    /\ sout.fn = "div_assign_real" => sout.res = dual_div_real(sin.a, sin.r)
    /\ sout.fn = "rem_assign_real" => sout.res = dual_rem_real(sin.a, sin.r)

\* C21: powi(a, n).val = a.val^n and powi(a, n).e[i] = n * a.val^(n - 1) * a.e[i]
\* for every component i.
C21_PowiRule ==
    sout.fn = "powi" =>
        /\ sout.res.val = F_powi(sin.a.val, sin.n)
        /\ \A i \in Components :
              sout.res.e[i] =
                  F_mul(F_mul(<<sin.n, 1>>, F_powi(sin.a.val, sin.n - 1)), sin.a.e[i])

\* C22: for a.val > 0, log2(a).val = log2(a.val) and log2(a).e[i] = a.e[i] /
\* (a.val * ln 2) for every component i, which is not the partial of log10(a)
\* unless it is 0.
C22_Log2DividesByLn2 ==
    (sout.fn = "log2" /\ sin.a.val[1] > 0) =>
        /\ sout.res.val = F_log2(sin.a.val)
        /\ \A i \in Components :
              /\ sout.res.e[i] = T_rdiv(sin.a.e[i], T_scale(sin.a.val, F_ln(2)))
              /\ sin.a.e[i] # F_zero => sout.res.e[i] # log10(sin.a).e[i]

\* C23: sinh(a), cosh(a) and tanh(a) have the value of the function at a.val and
\* the partials a.e[i] times cosh(a.val), sinh(a.val) and 1 / cosh(a.val)^2.
C23_HyperbolicRules ==
    /\ sout.fn = "sinh" =>
          /\ sout.res.val = F_sinh(sin.a.val)
          /\ \A i \in Components : sout.res.e[i] = T_scale(sin.a.e[i], F_cosh(sin.a.val))
    /\ sout.fn = "cosh" =>
          /\ sout.res.val = F_cosh(sin.a.val)
          /\ \A i \in Components : sout.res.e[i] = T_scale(sin.a.e[i], F_sinh(sin.a.val))
    /\ sout.fn = "tanh" =>
          /\ sout.res.val = F_tanh(sin.a.val)
          /\ \A i \in Components :
                sout.res.e[i] = T_rdiv(sin.a.e[i], T_powi(F_cosh(sin.a.val), 2))

\* C24: fract(a).val = fract(a.val) and fract(a).e[i] = a.e[i] for every component
\* i; floor, ceil, round, trunc and signum of a have all partials 0.
C24_FractKeepsPartials ==
    /\ sout.fn = "fract" =>
          /\ sout.res.val = F_sub(sin.a.val, F_trunc(sin.a.val))
          /\ sout.res.e = sin.a.e
    /\ sout.fn \in {"floor", "ceil", "round", "trunc", "signum"} =>
          \A i \in Components : sout.res.e[i] = F_zero

\* C25: a == b iff a.val == b.val and a < b iff a.val < b.val, whatever the
\* partials of the Duals a and b; a == r iff a.val == r and a < r iff a.val < r
\* for a real r.
C25_CompareByRealPart ==
    /\ sout.fn = "eq" => (sout.res <=> sin.a.val = sin.b.val)
    /\ sout.fn = "lt" =>
          (sout.res <=> sin.a.val[1] * sin.b.val[2] < sin.b.val[1] * sin.a.val[2])
    /\ sout.fn = "eq_real" => (sout.res <=> sin.a.val = sin.r)
    /\ sout.fn = "lt_real" =>
          (sout.res <=> sin.a.val[1] * sin.r[2] < sin.r[1] * sin.a.val[2])

\* Two Duals of equal value that differ in every partial compared equal.
C25_Witness ==
    /\ sout.fn = "eq" /\ sout.res
    /\ sin.a.val = sin.b.val
    /\ \A i \in Components : sin.a.e[i] # sin.b.e[i]

\* C26: is_nan, is_infinite, is_finite and is_normal of a Dual, called as its own
\* method or through the Float trait, are: val or some e[i] is NaN; nothing is NaN
\* and val or some e[i] is infinite; val and every e[i] are finite; val and every
\* e[i] are normal.
C26_ClassifyValAndPartials ==
    LET all == {sin.a.val} \cup {sin.a.e[i] : i \in Components}
    IN  /\ sout.fn \in {"is_nan", "Float::is_nan"} => (sout.res <=> "Nan" \in all)
        /\ sout.fn \in {"is_infinite", "Float::is_infinite"} =>
              (sout.res <=> ("Nan" \notin all /\ "Infinite" \in all))
        /\ sout.fn \in {"is_finite", "Float::is_finite"} =>
              (sout.res <=> all \cap {"Nan", "Infinite"} = {})
        /\ sout.fn \in {"is_normal", "Float::is_normal"} => (sout.res <=> all = {"Normal"})

\* C27: borrow(i1, i2) returns a view only if i1[i] <= i2[i] <= shape[i] on
\* every axis, so every view lies inside its parent.
C27_BorrowInsideParent ==
    (last.op = "borrow" /\ last.res.ok) =>
        \A k \in 1 .. rank :
            last.i1[k] <= last.i2[k] /\ last.i2[k] <= arr[last.id].dim[k]

\* C28: every live owning Array has size() = product of its shape, the packed
\* stride of its shape for sizeof(T), and an allocation of size() * sizeof(T)
\* bytes, which is at least the sum of stride[i] * (shape[i] - 1) plus sizeof(T).
C28_OwningArrayLayout ==
    \A a \in ArrayIds :
        Live(a) =>
            LET x == arr[a]
                bytes == IF LiveBlock(blk[a]) THEN blk[a].len * elem_size ELSE 0
            IN  /\ size(x.dim) = product(x.dim)
                /\ x.stride = stride_packed(x.dim, elem_size)
                /\ bytes = size(x.dim) * elem_size
                /\ bytes >= dot([k \in 1 .. rank |-> x.dim[k] - 1], x.stride) + elem_size

\* A logging closure is executing on thread t in the state with the stacks st.
HasClosure(st, t) == \E i \in 1 .. Len(st[t]) : st[t][i].kind = "closure"

\* C29: run_guarded entered while a closure is executing on the same thread returns
\* without running its closure and leaves the flag set; entered when none is
\* executing on that thread (whatever the flags of the other threads) it runs its
\* closure once and clears the flag afterwards, so the flag is set exactly while a
\* closure executes; every call of an allocator method is forwarded to System
\* exactly once, logged or not.
C29_RunGuardedReentry ==
    [][\A t \in Threads :
          LET entering == /\ InCall(t) /\ Top(t).pc = "log"
                          /\ dbg'.stack[t] # dbg.stack[t]
              top == dbg'.stack[t][Len(dbg'.stack[t])]
          IN  /\ (entering /\ HasClosure(dbg.stack, t)) =>
                    /\ Len(dbg'.stack[t]) = Len(dbg.stack[t])
                    /\ top.kind = Top(t).kind /\ top.ran = Top(t).ran /\ top.pc # "f"
                    /\ dbg'.guard[t]
              /\ (entering /\ ~HasClosure(dbg.stack, t)) =>
                    /\ Len(dbg'.stack[t]) = Len(dbg.stack[t]) + 1
                    /\ top.kind = "closure"
              /\ dbg'.guard[t] <=> HasClosure(dbg'.stack, t)
              /\ \A i \in 1 .. Len(dbg'.stack[t]) :
                    /\ dbg'.stack[t][i].fwd <= 1
                    /\ dbg'.stack[t][i].ran <= 1
              /\ (dbg'.ret # dbg.ret /\ dbg'.ret.thread = t) =>
                    /\ dbg'.ret.fwd = 1
                    /\ dbg'.ret.ran = (IF dbg'.ret.skipped THEN 0 ELSE 1)
                    /\ dbg'.ret.skipped <=> dbg'.ret.depth > 0]_vars

\* During the closure of its second call, thread t1 made a call that was
\* forwarded and not logged, while a closure was executing on thread t2.
C29_Witness ==
    /\ dbg.ret = [thread |-> "t1", kind |-> "alloc", fwd |-> 1, ran |-> 0,
                  skipped |-> TRUE, depth |-> 2]
    /\ dbg.calls["t1"] = 2
    /\ dbg.guard["t1"] /\ dbg.guard["t2"]

\* floor(nrows * train_test_split), the number of train rows.
FloorSplit == F_floor(F_mul(Rat(ds.nrows, 1), ds.data.train_test_split))[1]

\* The rows of the Dataset a part consists of, in order: the train rows are the
\* rows before row FloorSplit, the test rows are the others.
TrainRow(r) == r < FloorSplit
TestRow(r) == ~TrainRow(r)
PartRows(part) ==
    IF part = "train" THEN SelectSeq(Rows(ds.nrows), TrainRow)
    ELSE SelectSeq(Rows(ds.nrows), TestRow)

\* C30: an iterator over n rows with batch size b >= 1 yields the batches of rows
\* k*b .. (k+1)*b - 1 for k = 0, 1, ... in order, floor(n / b) of them at most, and
\* once next has returned None it has yielded exactly floor(n / b) and yields no
\* more; next never fails.  The train rows are the first floor(nrows * split) rows
\* and the test rows are all the others.
C30_BatchesInOrder ==
    /\ ds.panic # "next"
    /\ \A part \in Parts :
          ds[part].st = "iter" =>
              LET it == ds[part].it
                  out == ds[part].out
                  rows == PartRows(part)
                  n == Len(rows)
                  b == it.batch_size
              IN  /\ it.samples = rows
                  /\ it.labels = rows
                  /\ b >= 1 =>
                        /\ Len(out) <= n \div b
                        /\ \A k \in 0 .. (Len(out) - 1) :
                              /\ out[k + 1][1] = SubSeq(rows, k * b + 1, (k + 1) * b)
                              /\ out[k + 1][2] = SubSeq(rows, k * b + 1, (k + 1) * b)
                        /\ ds[part].nones > 0 => Len(out) = n \div b

\* Of 4 rows split at 3/4, the train iterator with batches of 2 has yielded rows
\* 0 and 1 and then None twice, row 2 being left out; the test iterator holds row 3
\* and has returned None.
C30_Witness ==
    /\ ds.nrows = 4
    /\ ds.data.train_test_split = Rat(3, 4)
    /\ ds.data.batch_size = [tag |-> "Number", num |-> 2]
    /\ ds.train.st = "iter"
    /\ ds.train.out = <<<< <<0, 1>>, <<0, 1>> >>>>
    /\ ds.train.nones = 2
    /\ ds.test.st = "iter"
    /\ ds.test.it.samples = <<3>>
    /\ ds.test.out = <<>>
    /\ ds.test.nones = 1
====
